---- MODULE Spec2Model ----
(***************************************************************************)
(* HarborPI telemetry logger: the storage tables (samples, entries), the   *)
(* logbook interpreter (LogbookInterpreter.run_job) with the scheduler     *)
(* thread that drives it, the manual-entry endpoint of the web layer, and  *)
(* the acquisition loop with its serial GPS reader.                        *)
(*                                                                         *)
(* Units: speeds are tenths of a knot (0.5 kn is 5), times are UNIX        *)
(* seconds.  A table is the set (samples) or the sequence in id order      *)
(* (entries) of its committed rows.  Every storage call takes the outcome  *)
(* of the call (it works, or sqlite3 raises) as an input.                  *)
(***************************************************************************)
EXTENDS Integers, Sequences, FiniteSets, TLC

VARIABLES
    wall,             \* time.time(), whole seconds
    samples,          \* table samples: set of rows
    entries,          \* table entries: sequence of rows, index = id
    stop_event,       \* main.stop_event
    spc,              \* run_interpreter_scheduler: position of the thread
    scheduler_running,\* BlockingScheduler.running
    interp_db_open,   \* the interpreter's db_conn is open
    ipc,              \* run_job: position of the running job
    last_status,      \* run_job local
    window_start_ts,  \* run_job local
    avg_speed_kn,     \* run_job local: <<sum, count>> of AVG(speed_kn)
    now_ts,           \* run_job local
    latest_sample,    \* run_job local: the row, or NoRow
    job_error,        \* a storage call of the current job raised (log.error)
    job_seen,         \* status of the latest committed entry when the job read it
    job_outcome,      \* how the last finished job ended
    apc,              \* run_acquisition_loop: position of the thread
    sensor_data,      \* run_acquisition_loop local: the Fix, or NoFix
    serial_open,      \* GpsSerialSensor.serial_conn.is_open
    acq_db_open,      \* the acquisition loop's db_conn is open
    iter_fault,       \* what the current iteration has logged as failed
    acq_log,          \* kinds of error records the loop has logged so far
    rpc,              \* GpsSerialSensor.read: position of a call on its own
    line_read         \* GpsSerialSensor.read local line: what readline returned

storeVars == <<samples, entries>>
schedVars == <<spc, scheduler_running, interp_db_open>>
jobVars == <<ipc, last_status, window_start_ts, avg_speed_kn, now_ts,
             latest_sample, job_error, job_seen, job_outcome>>
acqVars == <<apc, sensor_data, serial_open, acq_db_open, iter_fault, acq_log>>
readVars == <<rpc, line_read>>
vars == <<wall, storeVars, stop_event, schedVars, jobVars, acqVars, readVars>>

----------------------------------------------------------------------------
(* Bounds of the model *)

MaxClock == 2

----------------------------------------------------------------------------
(* Configuration and schema *)

NULL == -1

ANCHOR_SPEED_KN == 5
ANCHOR_MINUTES == 15
DEPARTURE_OFFSET_KN == 5

STATUS_ANCHORED == "anchored"
STATUS_UNDERWAY == "underway"

EntryStatuses == {"arrived", "anchored", "underway", "docked", "manual"}

VALID_SAMPLE_COLUMNS ==
    {"ts_utc", "lat", "lon", "speed_kn", "course_deg",
     "heading_mag", "pressure_hpa", "temp_c"}

\* the columns of table samples
SampleColumns ==
    {"ts_utc", "lat", "lon", "speed_kn", "course_deg",
     "heading_mag", "pressure_hpa", "temp_c"}

WindowSeconds == ANCHOR_MINUTES * 60

\* The instants at which the clock is observed: 0 and 1, then the seconds
\* whose window starts at 1 and at 2 (901, 902), and so on.
TimeOf(i) == (i \div 2) * (WindowSeconds + 1) + (i % 2)

ClockValues == {TimeOf(i) : i \in 0..MaxClock}

\* What GpsSerialSensor.read returns for an active fix: at rest at one
\* position, at exactly the departure threshold (1.0 kn) at another, and
\* fast (1.1 kn) with the position fields None
Readings ==
    {[lat |-> 1, lon |-> 2, speed_kn |-> 0, course_deg |-> 9],
     [lat |-> 3, lon |-> 4, speed_kn |-> 10, course_deg |-> 9],
     [lat |-> NULL, lon |-> NULL, speed_kn |-> 11, course_deg |-> 9]}

\* Python's None for a row, an entry and a reading
NoRow == [c \in VALID_SAMPLE_COLUMNS |-> NULL]
NoEntry ==
    [ts_utc |-> NULL, lat |-> NULL, lon |-> NULL, status |-> "None",
     place_name |-> NULL, wx_json |-> NULL, notes |-> NULL]
NoFix == [none |-> NULL]
NoLine == [text |-> "none"]
NoAvg == <<0, 0>>

----------------------------------------------------------------------------
(* Storage layer: the statements the components run on the two tables *)

RECURSIVE SumSpeed(_)
SumSpeed(rows) ==
    IF rows = {} THEN 0
    ELSE LET r == CHOOSE x \in rows : TRUE
         IN r.speed_kn + SumSpeed(rows \ {r})

\* the AVG query without its WHERE clause: every row of the table counts
AvgSpeedSince_AllRows(table, ts) ==
    LET rows == {r \in table : r.speed_kn # NULL}
    IN <<SumSpeed(rows), Cardinality(rows)>>

\* the AVG query with ts_utc > ts: the row at the start of the window left out
AvgSpeedSince_StrictlyAfter(table, ts) ==
    LET rows == {r \in table : r.ts_utc > ts /\ r.speed_kn # NULL}
    IN <<SumSpeed(rows), Cardinality(rows)>>

\* SELECT AVG(speed_kn) FROM samples WHERE ts_utc >= ts: <<sum, count>> over
\* the rows of the window whose speed is not NULL (count 0: AVG is NULL)
AvgSpeedSince(table, ts) ==
    LET rows == {r \in table : r.ts_utc >= ts /\ r.speed_kn # NULL}
    IN <<SumSpeed(rows), Cardinality(rows)>>

\* the filter keeping every key of the payload that is not None
SqlData_NoAllowList(data) ==
    [k \in {c \in DOMAIN data : data[c] # NULL} |-> data[k]]

\* the filter of _insert_sample: recognised columns that are present and not None
SqlData(data) ==
    [k \in {c \in VALID_SAMPLE_COLUMNS : c \in DOMAIN data /\ data[c] # NULL}
        |-> data[k]]

\* the row an INSERT naming only the columns of sql_data creates
RowOf(sql_data) ==
    [c \in SampleColumns |->
        IF c \in DOMAIN sql_data THEN sql_data[c] ELSE NULL]

\* _insert_sample committing what it wrote before the statement failed
insert_sample_NoRollback(table, data, ok) ==
    LET sql_data == SqlData(data)
    IN IF "ts_utc" \notin DOMAIN sql_data THEN table
       ELSE IF ~(DOMAIN sql_data \subseteq SampleColumns) THEN table
       ELSE IF \E r \in table : r.ts_utc = sql_data.ts_utc THEN table
       ELSE table \cup {RowOf(sql_data)}

\* _insert_sample with INSERT OR REPLACE in place of INSERT OR IGNORE
insert_sample_Replace(table, data, ok) ==
    LET sql_data == SqlData(data)
    IN IF "ts_utc" \notin DOMAIN sql_data THEN table
       ELSE IF ~ok \/ ~(DOMAIN sql_data \subseteq SampleColumns) THEN table
       ELSE {r \in table : r.ts_utc # sql_data.ts_utc} \cup {RowOf(sql_data)}

\* _insert_sample with the test for ts_utc left out: sqlite gives a row whose
\* INTEGER PRIMARY KEY is NULL or missing the next free key
insert_sample_NoTsCheck(table, data, ok) ==
    LET sql_data == SqlData(data)
        next_key == IF table = {} THEN 1
                    ELSE 1 + (CHOOSE t \in {r.ts_utc : r \in table} :
                                 \A r \in table : r.ts_utc <= t)
    IN IF ~ok \/ ~(DOMAIN sql_data \subseteq SampleColumns) THEN table
       ELSE IF "ts_utc" \notin DOMAIN sql_data
       THEN table \cup {[RowOf(sql_data) EXCEPT !.ts_utc = next_key]}
       ELSE IF \E r \in table : r.ts_utc = sql_data.ts_utc THEN table
       ELSE table \cup {RowOf(sql_data)}

\* _insert_sample: the table after the call; ok = FALSE: sqlite3.Error, rollback.
\* A statement naming a column the table does not have is an sqlite3.Error too.
insert_sample(table, data, ok) ==
    LET sql_data == SqlData(data)
    IN IF "ts_utc" \notin DOMAIN sql_data THEN table
       ELSE IF ~ok \/ ~(DOMAIN sql_data \subseteq SampleColumns) THEN table
       ELSE IF \E r \in table : r.ts_utc = sql_data.ts_utc THEN table
       ELSE table \cup {RowOf(sql_data)}

\* SELECT * FROM entries ORDER BY ts_utc DESC LIMIT 1
LatestEntry(table) ==
    IF table = <<>> THEN NoEntry
    ELSE LET i == CHOOSE j \in DOMAIN table :
                      \A k \in DOMAIN table : table[k].ts_utc <= table[j].ts_utc
         IN table[i]

\* LogbookInterpreter._get_last_entry: the row, or None when the table is
\* empty and when the query raises
get_last_entry(table, ok) ==
    IF ok THEN LatestEntry(table) ELSE NoEntry

\* _get_latest_sample without its WHERE clause: the most recent row, with a
\* position or not
get_latest_sample_AnyRow(table, ok) ==
    IF ~ok \/ table = {} THEN NoRow
    ELSE CHOOSE r \in table : \A q \in table : q.ts_utc <= r.ts_utc

\* LogbookInterpreter._get_latest_sample: most recent row with a position
get_latest_sample(table, ok) ==
    LET rows == {r \in table : r.lat # NULL /\ r.lon # NULL}
    IN IF ~ok \/ rows = {} THEN NoRow
       ELSE CHOOSE r \in rows : \A q \in rows : q.ts_utc <= r.ts_utc

\* table entries without UNIQUE on ts_utc
EntryAccepted_NoUnique(table, e) ==
    /\ e.ts_utc # NULL /\ e.lat # NULL /\ e.lon # NULL
    /\ e.status \in EntryStatuses

\* the constraints of table entries on an inserted row
EntryAccepted(table, e) ==
    /\ e.ts_utc # NULL /\ e.lat # NULL /\ e.lon # NULL
    /\ e.status \in EntryStatuses
    /\ \A i \in DOMAIN table : table[i].ts_utc # e.ts_utc

\* _create_entry with INSERT OR REPLACE: the row holding ts_utc is dropped
create_entry_Replace(table, status, ts_utc, lat, lon, ok) ==
    LET e == [ts_utc |-> ts_utc, lat |-> lat, lon |-> lon, status |-> status,
              place_name |-> NULL, wx_json |-> NULL, notes |-> NULL]
        kept(r) == r.ts_utc # ts_utc
    IN IF ok /\ e.lat # NULL /\ e.lon # NULL /\ e.status \in EntryStatuses
       THEN Append(SelectSeq(table, kept), e)
       ELSE table

\* LogbookInterpreter._create_entry: the table after the call
create_entry(table, status, ts_utc, lat, lon, ok) ==
    LET e == [ts_utc |-> ts_utc, lat |-> lat, lon |-> lon, status |-> status,
              place_name |-> NULL, wx_json |-> NULL, notes |-> NULL]
    IN IF ok /\ EntryAccepted(table, e) THEN Append(table, e) ELSE table

\* create_logbook_entry (web): INSERT ... 'manual'; a failure answers 500
create_logbook_entry(table, ts, lat, lon, notes, ok) ==
    LET e == [ts_utc |-> ts, lat |-> lat, lon |-> lon, status |-> "manual",
              place_name |-> NULL, wx_json |-> NULL, notes |-> notes]
    IN IF ok /\ EntryAccepted(table, e) THEN Append(table, e) ELSE table

----------------------------------------------------------------------------
(* The state machine of run_job *)

\* the anchor test with <= in place of <
AnchorEvent_AtOrBelow(avg) == avg[1] <= ANCHOR_SPEED_KN * avg[2]

\* avg_speed_kn < settings.ANCHOR_SPEED_KN, on <<sum, count>>
AnchorEvent(avg) == avg[1] < ANCHOR_SPEED_KN * avg[2]

\* the departure test against the anchor threshold itself, the 0.5 kn left out
DepartureEvent_NoHysteresis(avg) == avg[1] > ANCHOR_SPEED_KN * avg[2]

\* avg_speed_kn > settings.ANCHOR_SPEED_KN + 0.5, on <<sum, count>>
DepartureEvent(avg) == avg[1] > (ANCHOR_SPEED_KN + DEPARTURE_OFFSET_KN) * avg[2]

\* run_job logging a stop as an arrival
NextStatus_Arrived(status, avg) ==
    IF status = STATUS_UNDERWAY
    THEN (IF AnchorEvent(avg) THEN "arrived" ELSE "None")
    ELSE IF status = STATUS_ANCHORED
    THEN (IF DepartureEvent(avg) THEN STATUS_UNDERWAY ELSE "None")
    ELSE "None"

\* the status run_job decides to log, "None" when it logs nothing
NextStatus(status, avg) ==
    IF status = STATUS_UNDERWAY
    THEN (IF AnchorEvent(avg) THEN STATUS_ANCHORED ELSE "None")
    ELSE IF status = STATUS_ANCHORED
    THEN (IF DepartureEvent(avg) THEN STATUS_UNDERWAY ELSE "None")
    ELSE "None"

\* run_job assuming anchored when there is no entry
StatusOf_DefaultAnchored(last_entry) ==
    IF last_entry # NoEntry THEN last_entry.status ELSE STATUS_ANCHORED

\* last_status as run_job derives it from the row _get_last_entry returned
StatusOf(last_entry) ==
    IF last_entry # NoEntry THEN last_entry.status ELSE STATUS_UNDERWAY

----------------------------------------------------------------------------
(* Initial state: the threads are created, the tables hold what an earlier *)
(* run left in the database file.                                          *)

InitialEntries ==
    {<<>>} \cup
    {<<[ts_utc |-> 0, lat |-> 0, lon |-> 0, status |-> st,
        place_name |-> NULL, wx_json |-> NULL, notes |-> NULL]>> :
        st \in EntryStatuses}

Init ==
    /\ wall = 0
    /\ samples = {}
    /\ entries \in InitialEntries
    /\ stop_event = FALSE
    /\ spc = "while"
    /\ scheduler_running = FALSE
    /\ interp_db_open = TRUE
    /\ ipc = "idle"
    /\ last_status = "None"
    /\ window_start_ts = NULL
    /\ avg_speed_kn = NoAvg
    /\ now_ts = NULL
    /\ latest_sample = NoRow
    /\ job_error = FALSE
    /\ job_seen = "None"
    /\ job_outcome = "none"
    /\ apc = "init"
    /\ sensor_data = NoFix
    /\ serial_open = FALSE
    /\ acq_db_open = FALSE
    /\ iter_fault = "none"
    /\ acq_log = {}
    /\ rpc = "idle"
    /\ line_read = NoLine

----------------------------------------------------------------------------
(* Environment *)

\* the wall clock moves on
Tick ==
    /\ \E t \in ClockValues : t > wall /\ wall' = t
    /\ UNCHANGED <<storeVars, stop_event, schedVars, jobVars, acqVars, readVars>>

\* main.signal_handler
Signal ==
    /\ ~stop_event
    /\ stop_event' = TRUE
    /\ UNCHANGED <<wall, readVars, storeVars, schedVars, jobVars, acqVars>>

----------------------------------------------------------------------------
(* run_interpreter_scheduler *)

\* scheduler.start() returning at once, as a scheduler that runs in a thread of
\* its own does: the loop goes on to sleep and to test stop_event again
SchedulerLoop_StartReturns ==
    /\ spc = "while"
    /\ IF stop_event
       THEN spc' = "stopping" /\ UNCHANGED scheduler_running
       ELSE spc' = "while" /\ scheduler_running' = TRUE
    /\ UNCHANGED <<wall, readVars, storeVars, stop_event, interp_db_open, jobVars, acqVars>>

\* while not stop_event.is_set(): scheduler.start().  BlockingScheduler.start
\* runs the scheduler in the calling thread and does not return before a
\* shutdown, so the thread stays at "start".
SchedulerLoop ==
    /\ spc = "while"
    /\ IF stop_event
       THEN spc' = "stopping" /\ UNCHANGED scheduler_running
       ELSE spc' = "start" /\ scheduler_running' = TRUE
    /\ UNCHANGED <<wall, readVars, storeVars, stop_event, interp_db_open, jobVars, acqVars>>

\* scheduler.shutdown(wait=False); db_conn.close().  shutdown raises
\* SchedulerNotRunningError on a scheduler that was never started.
SchedulerStop ==
    /\ spc = "stopping"
    /\ IF scheduler_running
       THEN /\ scheduler_running' = FALSE
            /\ interp_db_open' = FALSE
            /\ spc' = "returned"
       ELSE /\ spc' = "raised"
            /\ UNCHANGED <<scheduler_running, interp_db_open>>
    /\ UNCHANGED <<wall, readVars, storeVars, stop_event, jobVars, acqVars>>

----------------------------------------------------------------------------
(* LogbookInterpreter.run_job, one action per storage call *)

\* run_job returns: its locals are gone, the outcome is what the log shows
JobReturn(outcome) ==
    /\ ipc' = "idle"
    /\ job_outcome' = outcome
    /\ last_status' = "None"
    /\ window_start_ts' = NULL
    /\ avg_speed_kn' = NoAvg
    /\ now_ts' = NULL
    /\ latest_sample' = NoRow
    /\ job_error' = FALSE
    /\ job_seen' = "None"

\* the scheduler fires a job: last_entry = self._get_last_entry()
RunJob_GetLastEntry ==
    /\ ipc = "idle"
    /\ scheduler_running
    /\ \E ok \in BOOLEAN :
          /\ last_status' = StatusOf(get_last_entry(entries, ok))
          /\ job_error' = ~ok
    /\ job_seen' = LatestEntry(entries).status
    /\ ipc' = "window"
    /\ UNCHANGED <<wall, readVars, storeVars, stop_event, schedVars, window_start_ts,
                   avg_speed_kn, now_ts, latest_sample, job_outcome, acqVars>>

\* window_start_ts and the AVG query
RunJob_Window ==
    /\ ipc = "window"
    /\ \E ok \in BOOLEAN :
          LET row == AvgSpeedSince(samples, wall - WindowSeconds)
          IN IF ~ok THEN JobReturn("aborted")
             ELSE IF row[2] = 0 THEN JobReturn("no_data")
             ELSE /\ window_start_ts' = wall - WindowSeconds
                  /\ avg_speed_kn' = row
                  /\ ipc' = "decide"
                  /\ UNCHANGED <<last_status, now_ts, latest_sample, job_error,
                                 job_seen, job_outcome>>
    /\ UNCHANGED <<wall, readVars, storeVars, stop_event, schedVars, acqVars>>

\* now_ts, the comparison with the thresholds and _get_latest_sample
RunJob_Decide ==
    /\ ipc = "decide"
    /\ IF NextStatus(last_status, avg_speed_kn) = "None"
       THEN JobReturn(IF last_status \in {STATUS_UNDERWAY, STATUS_ANCHORED}
                      THEN "no_change" ELSE "hold")
       ELSE \E ok \in BOOLEAN :
               LET row == get_latest_sample(samples, ok)
               IN IF row = NoRow
                  THEN JobReturn(IF ok THEN "no_position" ELSE "aborted")
                  ELSE /\ now_ts' = wall
                       /\ latest_sample' = row
                       /\ ipc' = "create"
                       /\ UNCHANGED <<last_status, window_start_ts, avg_speed_kn,
                                      job_error, job_seen, job_outcome>>
    /\ UNCHANGED <<wall, readVars, storeVars, stop_event, schedVars, acqVars>>

\* self._create_entry(status, now_ts, latest_sample["lat"], latest_sample["lon"])
RunJob_CreateEntry ==
    /\ ipc = "create"
    /\ \E ok \in BOOLEAN :
          /\ entries' = create_entry(entries, NextStatus(last_status, avg_speed_kn),
                                     now_ts, latest_sample.lat, latest_sample.lon, ok)
          /\ JobReturn(IF entries' = entries THEN "create_failed" ELSE "created")
    /\ UNCHANGED <<wall, readVars, samples, stop_event, schedVars, acqVars>>

----------------------------------------------------------------------------
(* The other writers of the two tables *)

\* web: POST /api/v1/logbook
CreateLogbookEntry ==
    /\ \E ok \in BOOLEAN :
          entries' = create_logbook_entry(entries, wall, 0, 0, 1, ok)
    /\ entries' # entries
    /\ UNCHANGED <<wall, readVars, samples, stop_event, schedVars, jobVars, acqVars>>

\* acquisition: one reading stamped with the clock and inserted
AcquireSample ==
    /\ \E fix \in Readings :
          samples' = insert_sample(samples, fix @@ ("ts_utc" :> wall), TRUE)
    /\ samples' # samples
    /\ UNCHANGED <<wall, readVars, entries, stop_event, schedVars, jobVars, acqVars>>

----------------------------------------------------------------------------
(* GpsSerialSensor.read and run_acquisition_loop *)

\* what readline and pynmea2.parse make of one line of input
LineKinds == {"timeout", "rmc_active", "rmc_void", "other_sentence", "corrupt"}

\* read returning the values of every RMC sentence, the void ones included
sensor_read_AnyRmc(line, fix) ==
    IF line \in {"rmc_active", "rmc_void"} THEN fix ELSE NoFix

\* GpsSerialSensor.read on a line that was read: the fix of an RMC sentence
\* with status 'A', None for everything else
sensor_read(line, fix) ==
    IF line = "rmc_active" THEN fix ELSE NoFix

\* time.sleep(5) of read after a serial fault, in seconds
RECONNECT_COOLDOWN_S == 5

\* What serial_conn.readline().decode().strip() gives: nothing before the
\* timeout, or the text of a sentence: its checksum right or wrong, its
\* type, the status field of an RMC sentence, its position fields
\* well-formed or not, and the values it carries
Lines ==
    {[text |-> "", checksum_ok |-> FALSE, sentence |-> "none",
      status |-> "none", fields_ok |-> FALSE, fix |-> NoFix]} \cup
    {[text |-> "data", checksum_ok |-> c, sentence |-> k[1], status |-> k[2],
      fields_ok |-> f, fix |-> r] :
        c \in BOOLEAN, f \in BOOLEAN, r \in Readings,
        k \in {<<"RMC", "A">>, <<"RMC", "V">>, <<"GGA", "none">>}}

\* the tests read makes on the line, in its order: empty, pynmea2.parse with
\* check=True, isinstance(msg, pynmea2.RMC) and msg.status == "A"
LineKind(l) ==
    IF l.text = "" THEN "timeout"
    ELSE IF ~l.checksum_ok THEN "corrupt"
    ELSE IF l.sentence = "RMC" /\ l.status = "A" THEN "rmc_active"
    ELSE IF l.sentence = "RMC" THEN "rmc_void"
    ELSE "other_sentence"

\* a GpsSerialSensor on its own: read is called and readline returns a line
\* or raises serial.SerialException (always so while the port is not open)
ReaderReadline ==
    /\ rpc \in {"idle", "raised"}
    /\ \/ /\ serial_open
          /\ line_read' \in Lines
          /\ rpc' = "parse"
       \/ /\ rpc' = "serial_error"
          /\ UNCHANGED line_read
    /\ UNCHANGED <<wall, storeVars, stop_event, schedVars, jobVars, apc,
                   sensor_data, serial_open, acq_db_open, iter_fault, acq_log>>

\* the line is tested and parsed and read returns; building the dict of a
\* sentence whose position fields are malformed raises what read does not catch
ReaderParse ==
    /\ rpc = "parse"
    /\ IF LineKind(line_read) = "rmc_active" /\ ~line_read.fields_ok
       THEN rpc' = "raised" /\ UNCHANGED sensor_data
       ELSE /\ sensor_data' = sensor_read(LineKind(line_read), line_read.fix)
            /\ rpc' = "idle"
    /\ line_read' = NoLine
    /\ UNCHANGED <<wall, storeVars, stop_event, schedVars, jobVars, apc,
                   serial_open, acq_db_open, iter_fault, acq_log>>

\* except serial.SerialException: log.error; self.serial_conn.close()
ReaderClose ==
    /\ rpc = "serial_error"
    /\ serial_open' = FALSE
    /\ rpc' = "cooldown"
    /\ UNCHANGED <<wall, storeVars, stop_event, schedVars, jobVars, apc,
                   sensor_data, acq_db_open, iter_fault, acq_log, line_read>>

\* time.sleep(5)
ReaderCooldown ==
    /\ rpc = "cooldown"
    /\ \E t \in ClockValues : t >= wall + RECONNECT_COOLDOWN_S /\ wall' = t
    /\ rpc' = "reopen"
    /\ UNCHANGED <<storeVars, stop_event, schedVars, jobVars, acqVars, line_read>>

\* a failed reopen escaping from read
ReaderReopen_Raises ==
    /\ rpc = "reopen"
    /\ serial_open' \in BOOLEAN
    /\ IF serial_open'
       THEN sensor_data' = NoFix /\ rpc' = "idle"
       ELSE rpc' = "raised" /\ UNCHANGED sensor_data
    /\ UNCHANGED <<wall, storeVars, stop_event, schedVars, jobVars, apc,
                   acq_db_open, iter_fault, acq_log, line_read>>

\* try: self.serial_conn.open() except serial.SerialException: log.error;
\* return None
ReaderReopen ==
    /\ rpc = "reopen"
    /\ serial_open' \in BOOLEAN
    /\ sensor_data' = NoFix
    /\ rpc' = "idle"
    /\ UNCHANGED <<wall, storeVars, stop_event, schedVars, jobVars, apc,
                   acq_db_open, iter_fault, acq_log, line_read>>

\* a failed start-up stopping the whole process, as main.run does when the
\* schema cannot be created
AcqInit_StopsProcess ==
    /\ apc = "init"
    /\ \E serial_ok \in BOOLEAN, db_ok \in BOOLEAN :
          IF serial_ok /\ db_ok
          THEN /\ apc' = "while"
               /\ serial_open' = TRUE
               /\ acq_db_open' = TRUE
               /\ UNCHANGED <<acq_log, stop_event>>
          ELSE /\ apc' = "init_failed"
               /\ serial_open' = serial_ok
               /\ acq_db_open' = FALSE
               /\ acq_log' = acq_log \cup {"critical"}
               /\ stop_event' = TRUE
    /\ UNCHANGED <<wall, readVars, storeVars, schedVars, jobVars, sensor_data,
                   iter_fault>>

\* sensor = GpsSerialSensor(...); db_conn = get_db_connection()
AcqInit ==
    /\ apc = "init"
    /\ \E serial_ok \in BOOLEAN, db_ok \in BOOLEAN :
          IF serial_ok /\ db_ok
          THEN /\ apc' = "while"
               /\ serial_open' = TRUE
               /\ acq_db_open' = TRUE
               /\ UNCHANGED acq_log
          ELSE /\ apc' = "init_failed"
               /\ serial_open' = serial_ok
               /\ acq_db_open' = FALSE
               /\ acq_log' = acq_log \cup {"critical"}
    /\ UNCHANGED <<wall, readVars, storeVars, stop_event, schedVars, jobVars, sensor_data,
                   iter_fault>>

\* while not stop_event.is_set()
AcqLoopCheck ==
    /\ apc = "while"
    /\ apc' = IF stop_event THEN "closing" ELSE "read"
    /\ iter_fault' = "none"
    /\ UNCHANGED <<wall, readVars, storeVars, stop_event, schedVars, jobVars, sensor_data,
                   serial_open, acq_db_open, acq_log>>

\* read whose handler closes the port and never opens it again
AcqRead_NoReopen ==
    /\ apc = "read"
    /\ \E how \in {"line", "serial_fault", "raises"} :
          /\ (~serial_open => how = "serial_fault")
          /\ IF how = "line"
             THEN \E line \in LineKinds, fix \in Readings :
                     /\ sensor_data' = sensor_read(line, fix)
                     /\ apc' = IF sensor_data' # NoFix THEN "stamp" ELSE "sleep"
                     /\ UNCHANGED <<serial_open, iter_fault, acq_log>>
             ELSE IF how = "serial_fault"
             THEN /\ serial_open' = FALSE
                  /\ sensor_data' = NoFix
                  /\ apc' = "sleep"
                  /\ UNCHANGED <<iter_fault, acq_log>>
             ELSE /\ apc' = "cooldown"
                  /\ iter_fault' = "exception"
                  /\ acq_log' = acq_log \cup {"critical"}
                  /\ UNCHANGED <<sensor_data, serial_open>>
    /\ UNCHANGED <<wall, readVars, storeVars, stop_event, schedVars, jobVars, acq_db_open>>

\* sensor_data = sensor.read(): a line, a serial fault (close, cool-down,
\* reopen) or an exception read does not catch
AcqRead ==
    /\ apc = "read"
    /\ \E how \in {"line", "serial_fault", "raises"} :
          /\ (~serial_open => how = "serial_fault")
          /\ IF how = "line"
             THEN \E line \in LineKinds, fix \in Readings :
                     /\ sensor_data' = sensor_read(line, fix)
                     /\ apc' = IF sensor_data' # NoFix THEN "stamp" ELSE "sleep"
                     /\ UNCHANGED <<serial_open, iter_fault, acq_log>>
             ELSE IF how = "serial_fault"
             THEN /\ serial_open' \in BOOLEAN
                  /\ sensor_data' = NoFix
                  /\ apc' = "sleep"
                  /\ UNCHANGED <<iter_fault, acq_log>>
             ELSE /\ apc' = "cooldown"
                  /\ iter_fault' = "exception"
                  /\ acq_log' = acq_log \cup {"critical"}
                  /\ UNCHANGED <<sensor_data, serial_open>>
    /\ UNCHANGED <<wall, readVars, storeVars, stop_event, schedVars, jobVars, acq_db_open>>

\* the sample stamped with the time the sentence carries, whatever the clock says
AcqStamp_SentenceTime ==
    /\ apc = "stamp"
    /\ \E raises \in BOOLEAN, t \in ClockValues :
          IF raises
          THEN /\ apc' = "cooldown"
               /\ iter_fault' = "exception"
               /\ acq_log' = acq_log \cup {"critical"}
               /\ UNCHANGED sensor_data
          ELSE /\ sensor_data' = sensor_data @@ ("ts_utc" :> t)
               /\ apc' = "insert"
               /\ UNCHANGED <<iter_fault, acq_log>>
    /\ UNCHANGED <<wall, readVars, storeVars, stop_event, schedVars, jobVars,
                   serial_open, acq_db_open>>

\* sensor_data["ts_utc"] = int(time.time())
AcqStamp ==
    /\ apc = "stamp"
    /\ \E raises \in BOOLEAN :
          IF raises
          THEN /\ apc' = "cooldown"
               /\ iter_fault' = "exception"
               /\ acq_log' = acq_log \cup {"critical"}
               /\ UNCHANGED sensor_data
          ELSE /\ sensor_data' = sensor_data @@ ("ts_utc" :> wall)
               /\ apc' = "insert"
               /\ UNCHANGED <<iter_fault, acq_log>>
    /\ UNCHANGED <<wall, readVars, storeVars, stop_event, schedVars, jobVars, serial_open,
                   acq_db_open>>

\* _insert_sample(db_conn, sensor_data): it works, sqlite3 raises (logged and
\* rolled back inside), or it raises something else
AcqInsert ==
    /\ apc = "insert"
    /\ \E how \in {"ok", "sqlite_error", "raises"} :
          IF how = "raises"
          THEN /\ apc' = "cooldown"
               /\ iter_fault' = "exception"
               /\ acq_log' = acq_log \cup {"critical"}
               /\ UNCHANGED samples
          ELSE /\ samples' = insert_sample(samples, sensor_data, how = "ok")
               /\ apc' = "sleep"
               /\ iter_fault' = IF how = "ok" THEN "none" ELSE "db_error"
               /\ acq_log' = IF how = "ok" THEN acq_log ELSE acq_log \cup {"error"}
    /\ UNCHANGED <<wall, readVars, entries, stop_event, schedVars, jobVars, sensor_data,
                   serial_open, acq_db_open>>

\* the inter-iteration wait as a plain time.sleep, the signal not looked at
AcqSleep_Uninterruptible ==
    /\ apc = "sleep"
    /\ apc' = "while"
    /\ UNCHANGED <<wall, readVars, storeVars, stop_event, schedVars, jobVars, sensor_data,
                   serial_open, acq_db_open, iter_fault, acq_log>>

\* if stop_event.wait(timeout=sleep_duration): break
AcqSleep ==
    /\ apc = "sleep"
    /\ apc' = IF stop_event THEN "closing" ELSE "while"
    /\ UNCHANGED <<wall, readVars, storeVars, stop_event, schedVars, jobVars, sensor_data,
                   serial_open, acq_db_open, iter_fault, acq_log>>

\* the handler leaving the loop after the wait whatever the wait returned
AcqCooldown_Breaks ==
    /\ apc = "cooldown"
    /\ apc' = "closing"
    /\ UNCHANGED <<wall, readVars, storeVars, stop_event, schedVars, jobVars, sensor_data,
                   serial_open, acq_db_open, iter_fault, acq_log>>

\* except Exception: ... if stop_event.wait(timeout=5.0): break
AcqCooldown ==
    /\ apc = "cooldown"
    /\ apc' = IF stop_event THEN "closing" ELSE "while"
    /\ UNCHANGED <<wall, readVars, storeVars, stop_event, schedVars, jobVars, sensor_data,
                   serial_open, acq_db_open, iter_fault, acq_log>>

\* db_conn.close() after the loop
AcqClose ==
    /\ apc = "closing"
    /\ acq_db_open' = FALSE
    /\ apc' = "stopped"
    /\ UNCHANGED <<wall, readVars, storeVars, stop_event, schedVars, jobVars, sensor_data,
                   serial_open, iter_fault, acq_log>>

\* The logbook while the process runs: the scheduler thread starts the
\* scheduler, jobs run, the web layer and the acquisition loop write.
Next ==
    \/ Tick
    \/ SchedulerLoop
    \/ RunJob_GetLastEntry
    \/ RunJob_Window
    \/ RunJob_Decide
    \/ RunJob_CreateEntry
    \/ CreateLogbookEntry
    \/ AcquireSample

Spec == Init /\ [][Next]_vars

\* The interpreter as the only writer of entries, from an empty table: the
\* scheduler, its jobs, the clock and the samples the acquisition loop
\* commits; nothing is posted to the web API.
InitInterp ==
    /\ Init
    /\ entries = <<>>

NextInterp ==
    \/ Tick
    \/ SchedulerLoop
    \/ RunJob_GetLastEntry
    \/ RunJob_Window
    \/ RunJob_Decide
    \/ RunJob_CreateEntry
    \/ AcquireSample

SpecInterp == InitInterp /\ [][NextInterp]_vars

\* The scheduler thread and the shutdown signal, with the jobs it fires
\* (no sample is written here, so every job ends at the window query).
NextSched ==
    \/ Tick
    \/ Signal
    \/ SchedulerLoop
    \/ SchedulerStop
    \/ RunJob_GetLastEntry
    \/ RunJob_Window
    \/ CreateLogbookEntry

SpecSched ==
    /\ Init
    /\ [][NextSched]_vars
    /\ WF_vars(SchedulerLoop)
    /\ WF_vars(SchedulerStop)
    /\ WF_vars(RunJob_Window)

\* The acquisition thread, the clock and the shutdown signal.
NextAcq ==
    \/ Tick
    \/ Signal
    \/ AcqInit
    \/ AcqLoopCheck
    \/ AcqRead
    \/ AcqStamp
    \/ AcqInsert
    \/ AcqSleep
    \/ AcqCooldown
    \/ AcqClose

SpecAcq == Init /\ [][NextAcq]_vars

\* Dicts _insert_sample can be called with: the fields of a reading, ts_utc
\* absent, None or a second of the clock, and a field that is no column
Payloads ==
    {[k \in DOMAIN fix \cup (IF has_ts THEN {"ts_utc"} ELSE {})
                       \cup (IF extra THEN {"hdop"} ELSE {}) |->
         IF k = "ts_utc" THEN ts ELSE IF k = "hdop" THEN 7 ELSE fix[k]] :
        fix \in Readings, has_ts \in BOOLEAN, extra \in BOOLEAN,
        ts \in ClockValues \cup {NULL}}

\* _insert_sample(db_conn, data) called on its own with any payload: what it
\* leaves in the table and what it logs
InsertSample ==
    /\ \E data \in Payloads, how \in {"ok", "sqlite_error", "raises"} :
          LET sql_data == SqlData(data)
          IN /\ sensor_data' = data
             /\ IF "ts_utc" \notin DOMAIN sql_data
                THEN /\ iter_fault' = "no_ts"
                     /\ acq_log' = acq_log \cup {"missing_ts"}
                     /\ samples' = insert_sample(samples, data, TRUE)
                ELSE IF how = "raises"
                THEN /\ iter_fault' = "exception"
                     /\ UNCHANGED <<acq_log, samples>>
                ELSE /\ samples' = insert_sample(samples, data, how = "ok")
                     /\ iter_fault' =
                           IF ~(DOMAIN sql_data \subseteq SampleColumns)
                           THEN "no_such_column"
                           ELSE IF how = "ok" THEN "none" ELSE "db_error"
                     /\ acq_log' = IF iter_fault' = "none" THEN acq_log
                                   ELSE acq_log \cup {"error"}
    /\ UNCHANGED <<wall, readVars, entries, stop_event, schedVars, jobVars, apc,
                   serial_open, acq_db_open>>

\* _insert_sample as a function of the table and the payload, the handle open
InitInsert ==
    /\ wall = 0
    /\ samples = {}
    /\ entries = <<>>
    /\ stop_event = FALSE
    /\ spc = "while"
    /\ scheduler_running = FALSE
    /\ interp_db_open = TRUE
    /\ ipc = "idle"
    /\ last_status = "None"
    /\ window_start_ts = NULL
    /\ avg_speed_kn = NoAvg
    /\ now_ts = NULL
    /\ latest_sample = NoRow
    /\ job_error = FALSE
    /\ job_seen = "None"
    /\ job_outcome = "none"
    /\ apc = "insert"
    /\ sensor_data = NoFix
    /\ serial_open = TRUE
    /\ acq_db_open = TRUE
    /\ iter_fault = "none"
    /\ acq_log = {}
    /\ rpc = "idle"
    /\ line_read = NoLine

NextInsert == InsertSample

SpecInsert == InitInsert /\ [][NextInsert]_vars

\* The three contexts main.run starts, in the second they start in: the
\* acquisition thread from its start-up on, the scheduler thread with its
\* jobs, and the web layer.
NextStartup ==
    \/ AcqInit
    \/ AcqLoopCheck
    \/ AcqRead
    \/ AcqStamp
    \/ AcqInsert
    \/ AcqSleep
    \/ AcqCooldown
    \/ SchedulerLoop
    \/ RunJob_GetLastEntry
    \/ RunJob_Window
    \/ RunJob_Decide
    \/ RunJob_CreateEntry
    \/ CreateLogbookEntry

SpecStartup == Init /\ [][NextStartup]_vars

\* A GpsSerialSensor that was constructed (the port is open) and whose read
\* is called again and again while the clock moves on.
InitReader ==
    /\ wall = 0
    /\ samples = {}
    /\ entries = <<>>
    /\ stop_event = FALSE
    /\ spc = "while"
    /\ scheduler_running = FALSE
    /\ interp_db_open = TRUE
    /\ ipc = "idle"
    /\ last_status = "None"
    /\ window_start_ts = NULL
    /\ avg_speed_kn = NoAvg
    /\ now_ts = NULL
    /\ latest_sample = NoRow
    /\ job_error = FALSE
    /\ job_seen = "None"
    /\ job_outcome = "none"
    /\ apc = "read"
    /\ sensor_data = NoFix
    /\ serial_open = TRUE
    /\ acq_db_open = TRUE
    /\ iter_fault = "none"
    /\ acq_log = {}
    /\ rpc = "idle"
    /\ line_read = NoLine

NextReader ==
    \/ Tick
    \/ ReaderReadline
    \/ ReaderParse
    \/ ReaderClose
    \/ ReaderCooldown
    \/ ReaderReopen

SpecReader == InitReader /\ [][NextReader]_vars

\* The acquisition thread is scheduled: every call it makes returns (readline
\* has a timeout, the waits are timed), so each of its steps is taken in the end.
SpecAcqLive ==
    /\ Init
    /\ [][NextAcq]_vars
    /\ WF_vars(AcqInit)
    /\ WF_vars(AcqLoopCheck)
    /\ WF_vars(AcqRead)
    /\ WF_vars(AcqStamp)
    /\ WF_vars(AcqInsert)
    /\ WF_vars(AcqSleep)
    /\ WF_vars(AcqCooldown)
    /\ WF_vars(AcqClose)

\* The loop right after a read whose handler could not reopen the port (the
\* first read of a fresh database; nothing is stored yet), left running: no
\* signal arrives.
InitReconnect ==
    /\ wall = 0
    /\ samples = {}
    /\ entries = <<>>
    /\ stop_event = FALSE
    /\ spc = "while"
    /\ scheduler_running = FALSE
    /\ interp_db_open = TRUE
    /\ ipc = "idle"
    /\ last_status = "None"
    /\ window_start_ts = NULL
    /\ avg_speed_kn = NoAvg
    /\ now_ts = NULL
    /\ latest_sample = NoRow
    /\ job_error = FALSE
    /\ job_seen = "None"
    /\ job_outcome = "none"
    /\ apc = "sleep"
    /\ sensor_data = NoFix
    /\ serial_open = FALSE
    /\ acq_db_open = TRUE
    /\ iter_fault = "none"
    /\ acq_log = {}
    /\ rpc = "idle"
    /\ line_read = NoLine

NextReconnect ==
    \/ Tick
    \/ AcqLoopCheck
    \/ AcqRead
    \/ AcqStamp
    \/ AcqInsert
    \/ AcqSleep
    \/ AcqCooldown

\* The thread is scheduled (each call of the loop returns), and the world
\* serves in the end: the device comes back (some reopen works), sentences
\* with an active fix keep arriving on the open port, the clock can be read
\* and the insert is committed.
SpecReconnect ==
    /\ InitReconnect
    /\ [][NextReconnect]_vars
    /\ WF_vars(AcqLoopCheck)
    /\ WF_vars(AcqRead)
    /\ WF_vars(AcqStamp)
    /\ WF_vars(AcqInsert)
    /\ WF_vars(AcqSleep)
    /\ WF_vars(AcqCooldown)
    /\ SF_vars(AcqRead /\ ~serial_open /\ serial_open')
    /\ SF_vars(AcqRead /\ apc' = "stamp")
    /\ SF_vars(AcqStamp /\ apc' = "insert")
    /\ SF_vars(AcqInsert /\ iter_fault' = "none" /\ apc' = "sleep")

----------------------------------------------------------------------------
(* Properties of the interpreter *)

HoldStatuses == {"docked", "manual", "arrived"}

\* a step of run_job (every one moves the job's position)
JobStep == ipc' # ipc

Positioned(r) == r.lat # NULL /\ r.lon # NULL

MostRecentPositioned(r) ==
    /\ r \in samples
    /\ Positioned(r)
    /\ \A q \in samples : Positioned(q) => q.ts_utc <= r.ts_utc

\* the entry a job writes: status, its now_ts and the position of its sample
AutoEntry(status) ==
    [ts_utc |-> now_ts, lat |-> latest_sample.lat, lon |-> latest_sample.lon,
     status |-> status, place_name |-> NULL, wx_json |-> NULL, notes |-> NULL]

\* the job ends here and writes nothing
ReturnsWithoutEntry == ipc' = "idle" /\ entries' = entries

\* C1: a job that ran while the most recent entry was docked, manual or
\* arrived leaves the entries table as it is.
HoldStateImmunity ==
    [][(JobStep /\ job_seen \in HoldStatuses) => entries' = entries]_vars

\* C2: with the most recent entry underway, a job whose window average is
\* below ANCHOR_SPEED_KN and that finds a positioned sample goes on to insert,
\* and what it inserts is exactly one entry: anchored, at its now_ts (the
\* clock when it compared), at the position of the most recent positioned
\* sample; only a raising storage call stops it.  With the average at or
\* above ANCHOR_SPEED_KN it returns without an entry.
UnderwayToAnchored ==
    [][/\ (ipc = "decide" /\ JobStep /\ job_seen = STATUS_UNDERWAY) =>
            IF avg_speed_kn[1] < ANCHOR_SPEED_KN * avg_speed_kn[2]
            THEN IF \E r \in samples : Positioned(r)
                 THEN \/ ReturnsWithoutEntry /\ job_outcome' = "aborted"
                      \/ /\ ipc' = "create"
                         /\ now_ts' = wall
                         /\ MostRecentPositioned(latest_sample')
                         /\ entries' = entries
                 ELSE ReturnsWithoutEntry
            ELSE ReturnsWithoutEntry /\ job_outcome' = "no_change"
       /\ (ipc = "create" /\ JobStep /\ job_seen = STATUS_UNDERWAY) =>
            \/ entries' = entries /\ job_outcome' = "create_failed"
            \/ entries' = Append(entries, AutoEntry(STATUS_ANCHORED))
      ]_vars

\* a job has just inserted an anchored entry on top of an underway one
UnderwayToAnchoredHappens ==
    /\ ipc = "idle" /\ job_outcome = "created"
    /\ Len(entries) >= 2
    /\ entries[Len(entries)].status = STATUS_ANCHORED
    /\ entries[Len(entries) - 1].status = STATUS_UNDERWAY
    /\ \E r \in samples :
          /\ MostRecentPositioned(r)
          /\ entries[Len(entries)].lat = r.lat
          /\ entries[Len(entries)].lon = r.lon

\* C3: with the most recent entry anchored, a job that read it goes on to
\* insert exactly when its window average is strictly above
\* ANCHOR_SPEED_KN + 0.5 and a positioned sample exists (a raising storage
\* call aside), and what it inserts is one underway entry; at 1.0 kn or
\* below it returns without an entry.  A job whose read of the entry raised
\* inserts no underway entry.
AnchoredToUnderway ==
    [][/\ (ipc = "decide" /\ JobStep /\ job_seen = STATUS_ANCHORED /\ ~job_error) =>
            IF avg_speed_kn[1] > (ANCHOR_SPEED_KN + DEPARTURE_OFFSET_KN) * avg_speed_kn[2]
            THEN IF \E r \in samples : Positioned(r)
                 THEN \/ ReturnsWithoutEntry /\ job_outcome' = "aborted"
                      \/ /\ ipc' = "create"
                         /\ now_ts' = wall
                         /\ MostRecentPositioned(latest_sample')
                         /\ entries' = entries
                 ELSE ReturnsWithoutEntry
            ELSE ReturnsWithoutEntry /\ job_outcome' = "no_change"
       /\ (ipc = "create" /\ JobStep /\ job_seen = STATUS_ANCHORED) =>
            \/ entries' = entries /\ job_outcome' = "create_failed"
            \/ /\ ~job_error
               /\ avg_speed_kn[1] >
                     (ANCHOR_SPEED_KN + DEPARTURE_OFFSET_KN) * avg_speed_kn[2]
               /\ entries' = Append(entries, AutoEntry(STATUS_UNDERWAY))
            \/ /\ job_error
               /\ Len(entries') = Len(entries) + 1
               /\ entries'[Len(entries')].status # STATUS_UNDERWAY
      ]_vars

\* a job has just inserted an underway entry on top of an anchored one
AnchoredToUnderwayHappens ==
    /\ ipc = "idle" /\ job_outcome = "created"
    /\ Len(entries) >= 2
    /\ entries[Len(entries)].status = STATUS_UNDERWAY
    /\ entries[Len(entries) - 1].status = STATUS_ANCHORED

\* C4: whatever a job step does to the entries table is the insert of one
\* row whose status is anchored or underway.
InterpreterWritesOnlyAutomatedStatuses ==
    [][JobStep =>
         \/ entries' = entries
         \/ /\ Len(entries') = Len(entries) + 1
            /\ SubSeq(entries', 1, Len(entries)) = entries
            /\ entries'[Len(entries')].status \in {STATUS_ANCHORED, STATUS_UNDERWAY}
      ]_vars

\* a job has inserted an entry
InterpreterHasWritten ==
    /\ job_outcome = "created"
    /\ \E i \in DOMAIN entries :
          /\ entries[i].status \in {STATUS_ANCHORED, STATUS_UNDERWAY}
          /\ entries[i].notes = NULL

\* C5: once a storage call of a job has raised, no later step of that job
\* changes the entries table.
ErrorAbortsTick ==
    [][(JobStep /\ job_error) => entries' = entries]_vars

\* C9: a job that finds the entries table empty treats the status as
\* underway: with the window average at or above ANCHOR_SPEED_KN it returns
\* without an entry; below it, with a positioned sample, it goes on to
\* insert, and what it inserts is an anchored entry, never an underway one.
BootstrapAssumesUnderway ==
    [][/\ (ipc = "idle" /\ JobStep /\ entries = <<>>) =>
            last_status' = STATUS_UNDERWAY
       /\ (ipc = "decide" /\ JobStep /\ job_seen = "None") =>
            IF avg_speed_kn[1] < ANCHOR_SPEED_KN * avg_speed_kn[2]
            THEN IF \E r \in samples : Positioned(r)
                 THEN ipc' = "create" \/ job_outcome' = "aborted"
                 ELSE ReturnsWithoutEntry
            ELSE ReturnsWithoutEntry /\ job_outcome' = "no_change"
       /\ (ipc = "create" /\ JobStep /\ job_seen = "None") =>
            \/ entries' = entries /\ job_outcome' = "create_failed"
            \/ /\ entries' = Append(entries, AutoEntry(STATUS_ANCHORED))
               /\ entries'[Len(entries')].status # STATUS_UNDERWAY
      ]_vars

\* the first entry of the logbook is the anchored entry a job has just inserted
BootstrapAnchorHappens ==
    /\ ipc = "idle" /\ job_outcome = "created"
    /\ Len(entries) = 1
    /\ entries[1].status = STATUS_ANCHORED

\* C13: whenever a job inserts an entry, the entry that is the most recent
\* one in the table immediately before the insert is not docked, manual or
\* arrived, whatever the web layer inserted while the job ran (stated for the
\* jobs whose read of the latest entry did not raise).
ManualEntryNeverOverridden ==
    [][(JobStep /\ ~job_error /\ entries' # entries) =>
          LatestEntry(entries).status \notin HoldStatuses]_vars

\* no sample has its ts_utc in the window that ends at the clock
NoSampleInWindow == \A r \in samples : r.ts_utc < wall - WindowSeconds

\* C14: a job that runs its window query while no sample lies in the window
\* returns there, whatever status it read: both tables stay as they are, and
\* it ends as a skipped tick (no error logged) unless the query itself raised.
InsufficientDataIsNoFault ==
    [][(ipc = "window" /\ JobStep /\ NoSampleInWindow) =>
          /\ ReturnsWithoutEntry
          /\ samples' = samples
          /\ job_outcome' \in {"no_data", "aborted"}
      ]_vars

\* a job has just skipped its tick: there are samples, all older than the
\* window, and the latest entry is one the state machine would act on
SkippedForLackOfData ==
    /\ ipc = "idle" /\ job_outcome = "no_data"
    /\ samples # {}
    /\ NoSampleInWindow
    /\ LatestEntry(entries).status \in {STATUS_UNDERWAY, STATUS_ANCHORED}

\* C21: the average a job goes on to compare is the sum and the count of
\* speed_kn over the samples with ts_utc >= clock - ANCHOR_MINUTES * 60, the
\* sample at that very second included and every older one left out,
\* whatever the entries table holds; the job compares that average and no
\* other.
WindowIsTrailingAnchorMinutes ==
    [][/\ (ipc = "window" /\ JobStep) =>
            LET rows == {r \in samples : /\ r.ts_utc >= wall - ANCHOR_MINUTES * 60
                                         /\ r.speed_kn # NULL}
            IN IF ipc' = "decide"
               THEN /\ rows # {}
                    /\ avg_speed_kn' = <<SumSpeed(rows), Cardinality(rows)>>
                    /\ window_start_ts' = wall - ANCHOR_MINUTES * 60
               ELSE ipc' = "idle" /\ (rows # {} => job_outcome' = "aborted")
       /\ (ipc = "decide" /\ JobStep /\ ipc' = "create") =>
            avg_speed_kn' = avg_speed_kn
      ]_vars

\* a job has its average: one sample lies at the first second of the window,
\* an older one was left out, and the latest entry is newer than both
WindowBoundaryHappens ==
    /\ ipc = "decide"
    /\ \E r \in samples, q \in samples :
          /\ r.ts_utc = window_start_ts
          /\ q.ts_utc < window_start_ts
          /\ avg_speed_kn = <<r.speed_kn, 1>>
    /\ entries # <<>>
    /\ LatestEntry(entries).ts_utc > window_start_ts

\* C22: a job that has decided on a transition while no sample has both lat
\* and lon returns without an entry; a job goes on to insert only with the
\* stored sample that has the greatest ts_utc among the positioned ones, and
\* every entry a job inserts carries the lat and lon of that sample.
NoPositionlessEntry ==
    [][/\ (ipc = "decide" /\ JobStep /\ ~(\E r \in samples : Positioned(r))) =>
            ReturnsWithoutEntry
       /\ (ipc = "decide" /\ JobStep /\ ipc' = "create") =>
            MostRecentPositioned(latest_sample')
       /\ (JobStep /\ entries' # entries) =>
            /\ ipc = "create"
            /\ latest_sample \in samples /\ Positioned(latest_sample)
            /\ Len(entries') = Len(entries) + 1
            /\ entries'[Len(entries')].lat = latest_sample.lat
            /\ entries'[Len(entries')].lon = latest_sample.lon
      ]_vars

\* a job found the departure condition true and no sample with a position:
\* it has returned, and the anchored entry is still the latest one
SkippedForLackOfPosition ==
    /\ ipc = "idle" /\ job_outcome = "no_position"
    /\ samples # {}
    /\ \A r \in samples : ~Positioned(r)
    /\ LatestEntry(entries).status = STATUS_ANCHORED

\* C23: no two rows of the entries table have the same ts_utc, however jobs
\* and manual inserts interleave; a job whose insert names a ts_utc that a
\* row already has leaves the table as it was and returns (the failure is
\* logged, the scheduler keeps running).
EntryTimestampsUnique ==
    /\ [](\A i \in DOMAIN entries, j \in DOMAIN entries :
            entries[i].ts_utc = entries[j].ts_utc => i = j)
    /\ [][(/\ ipc = "create" /\ JobStep
           /\ \E i \in DOMAIN entries : entries[i].ts_utc = now_ts) =>
             /\ entries' = entries
             /\ ipc' = "idle" /\ job_outcome' = "create_failed"
             /\ scheduler_running'
         ]_vars

\* the insert of a job has failed, and a manual entry holds the second the
\* job had taken for its own
CollisionRejected ==
    /\ ipc = "idle" /\ job_outcome = "create_failed"
    /\ \E i \in DOMAIN entries :
          /\ entries[i].ts_utc = wall
          /\ entries[i].status = "manual" /\ entries[i].notes # NULL
    /\ \A i \in DOMAIN entries : entries[i].notes = NULL => entries[i].ts_utc < wall

\* C24: storage only grows: every step keeps each committed sample row and
\* each committed entry row, with its values and its place, whichever of the
\* acquisition loop, the job and the manual insert takes the step; a step
\* of the job leaves samples alone, and a step that adds a sample leaves
\* entries alone.
StorageAppendOnly ==
    [][/\ \A r \in samples : r \in samples'
       /\ Len(entries') >= Len(entries)
       /\ \A i \in DOMAIN entries : entries'[i] = entries[i]
       /\ JobStep => samples' = samples
       /\ samples' # samples => entries' = entries
      ]_vars

\* the job has inserted an entry into a table that held a manual entry, with
\* several samples stored
AppendedToHistory ==
    /\ ipc = "idle" /\ job_outcome = "created"
    /\ Cardinality(samples) >= 2
    /\ Len(entries) >= 2
    /\ entries[Len(entries)].notes = NULL
    /\ \E i \in DOMAIN entries : entries[i].status = "manual"

\* C26: with the interpreter as the only writer and the table empty at the
\* start, the entries in order of ts_utc read anchored, underway, anchored,
\* ...: the first is anchored, and no entry has the status of the one before.
EntriesAlternate ==
    \A i \in DOMAIN entries :
       /\ entries[i].status = IF i % 2 = 1 THEN STATUS_ANCHORED ELSE STATUS_UNDERWAY
       /\ i > 1 => entries[i].ts_utc > entries[i - 1].ts_utc

----------------------------------------------------------------------------
(* Properties of the acquisition loop *)

\* a step of run_acquisition_loop (every one moves the thread's position)
AcqStep == apc' # apc

InLoop == {"while", "read", "stamp", "insert", "sleep", "cooldown"}

UniqueTimestamps(table) ==
    \A r \in table, q \in table : r.ts_utc = q.ts_utc => r = q

\* C6: after a successful initialization the thread leaves the loop only
\* with the shutdown signal set; an exception raised by the read, the
\* timestamping or the write takes it to the cool-down wait, and the wait
\* ends in the next loop test unless the signal is set.
AcquisitionNeverDies ==
    [][/\ (AcqStep /\ apc \in InLoop /\ apc' \notin InLoop) => stop_event
       /\ (AcqStep /\ iter_fault # "exception" /\ iter_fault' = "exception") =>
            apc \in {"read", "stamp", "insert"} /\ apc' = "cooldown"
       /\ (AcqStep /\ apc = "cooldown") =>
            apc' = IF stop_event THEN "closing" ELSE "while"
      ]_vars

\* an iteration raised, and the loop is reading the sensor again
AcquisitionSurvivedException ==
    /\ "critical" \in acq_log
    /\ apc = "read"
    /\ iter_fault = "none"
    /\ ~stop_event

\* C7: a write that fails leaves the samples table as it was and takes the
\* loop to its sleep (one write attempt per iteration, none repeated), the
\* sleep leads to the next iteration unless the signal is set, and a write
\* that does not fail leaves a row for the reading's second in the table.
WriteFaultContained ==
    [][/\ (AcqStep /\ apc = "insert" /\ iter_fault' = "db_error") =>
            samples' = samples /\ apc' = "sleep"
       /\ (AcqStep /\ apc = "sleep" /\ ~stop_event) => apc' = "while"
       /\ (AcqStep /\ apc = "while" /\ ~stop_event) => apc' = "read"
       /\ (AcqStep /\ apc = "insert" /\ iter_fault' = "none") =>
            /\ apc' = "sleep"
            /\ \E r \in samples' : r.ts_utc = sensor_data.ts_utc
            /\ (\A r \in samples : r.ts_utc # sensor_data.ts_utc) =>
                  \E r \in samples' \ samples :
                     /\ r.lat = sensor_data.lat /\ r.lon = sensor_data.lon
                     /\ r.speed_kn = sensor_data.speed_kn
      ]_vars

\* a write failed in an earlier iteration, and this iteration's reading is
\* in the table
WroteAfterWriteFault ==
    /\ "error" \in acq_log
    /\ apc = "sleep"
    /\ iter_fault = "none"
    /\ sensor_data # NoFix
    /\ RowOf(SqlData(sensor_data)) \in samples

\* C8: the samples table never holds two rows with one ts_utc, and no step
\* removes or changes a row it holds: an insert for a second that has a row
\* leaves that row.
IdempotentSampleInsert ==
    [][/\ UniqueTimestamps(samples')
       /\ \A r \in samples : r \in samples'
      ]_vars

\* a reading stamped with a second that already had a different row was
\* passed to the insert, and the table kept the first row
DuplicateIgnored ==
    /\ apc = "sleep"
    /\ iter_fault = "none"
    /\ sensor_data # NoFix
    /\ RowOf(SqlData(sensor_data)) \notin samples
    /\ \E r \in samples : r.ts_utc = sensor_data.ts_utc

\* C12: with the stop signal set, the loop test and both waits lead out of
\* the loop and nowhere else, no step starts a read, the function returns
\* only through db_conn.close(), and the signal leads to the function having
\* returned (the handle closed, or never opened when the start-up failed).
AcquisitionTerminates ==
    /\ [][/\ (AcqStep /\ stop_event /\ apc \in {"while", "sleep", "cooldown"}) =>
                apc' = "closing"
          /\ (AcqStep /\ stop_event) => apc' # "read"
          /\ (AcqStep /\ apc' = "stopped") => apc = "closing" /\ ~acq_db_open'
         ]_vars
    /\ [](apc = "stopped" => ~acq_db_open)
    /\ (stop_event ~> apc \in {"stopped", "init_failed"})

\* the signal came while the loop was running, and the loop has closed its
\* handle and returned
AcquisitionStopped ==
    /\ stop_event
    /\ apc = "stopped"
    /\ ~acq_db_open
    /\ samples # {}

\* C17: the start-up of run_acquisition_loop goes on to the loop only with
\* both the port and the storage handle open; otherwise it logs a critical
\* record and the function has returned: from then on the thread takes no
\* step and no sample is written.  The failing start-up touches nothing of
\* the other contexts (the stop signal included), and after it the scheduler
\* thread can still start the scheduler, jobs can still start and go on, and
\* the web layer can still insert.
InitFailureFatalToLoopOnly ==
    /\ [][/\ (AcqStep /\ apc = "init") =>
                /\ apc' = IF serial_open' /\ acq_db_open'
                          THEN "while" ELSE "init_failed"
                /\ (apc' = "init_failed") =>
                      "critical" \in acq_log' /\ ~acq_db_open'
                /\ UNCHANGED <<storeVars, stop_event, schedVars, jobVars>>
          /\ (apc = "init_failed") => UNCHANGED <<acqVars, samples>>
         ]_vars
    /\ [](apc = "init_failed" =>
            /\ (spc = "while") => ENABLED SchedulerLoop
            /\ (scheduler_running /\ ipc = "idle") => ENABLED RunJob_GetLastEntry
            /\ (ipc = "window") => ENABLED RunJob_Window
            /\ (\A i \in DOMAIN entries : entries[i].ts_utc # wall) =>
                  ENABLED CreateLogbookEntry)

\* the start-up has failed, and with the acquisition thread gone a job has
\* run to its end and the web layer has inserted an entry
OthersRunAfterInitFailure ==
    /\ apc = "init_failed"
    /\ "critical" \in acq_log
    /\ samples = {}
    /\ scheduler_running
    /\ ipc = "idle" /\ job_outcome = "no_data"
    /\ \E i \in DOMAIN entries : entries[i].status = "manual" /\ entries[i].notes # NULL

\* C19: a reading is stamped after it was read, with the second the clock
\* shows at that step, and written in the next step of its iteration; the
\* samples table changes only there, by one row that carries that stamp, and
\* no row written before has a larger ts_utc.
SamplesWrittenInTimestampOrder ==
    [][/\ (AcqStep /\ apc' = "stamp") => apc = "read" /\ sensor_data' # NoFix
       /\ (AcqStep /\ apc' = "insert") =>
            /\ apc = "stamp"
            /\ sensor_data'.ts_utc = wall
            /\ \A k \in DOMAIN sensor_data : sensor_data'[k] = sensor_data[k]
       /\ (AcqStep /\ apc = "insert") => sensor_data.ts_utc <= wall
       /\ (samples' # samples) =>
            /\ AcqStep /\ apc = "insert"
            /\ \E r \in samples' :
                  /\ samples' = samples \cup {r}
                  /\ r.ts_utc = sensor_data.ts_utc
                  /\ \A q \in samples : q.ts_utc <= r.ts_utc
      ]_vars

\* the loop has written samples in two iterations, the later one with the
\* larger ts_utc
WroteInLaterSecond ==
    /\ apc = "sleep"
    /\ iter_fault = "none"
    /\ sensor_data # NoFix
    /\ \E r \in samples, q \in samples :
          /\ r.ts_utc = sensor_data.ts_utc
          /\ r.speed_kn = sensor_data.speed_kn
          /\ q.ts_utc < r.ts_utc

\* C27: after a read that could not reopen the port, every read finds the
\* port closed, runs the handler again (close, cool-down, reopen) and
\* returns nothing, without an exception reaching the loop and without a
\* sample written; if the device comes back and the loop is left running, a
\* closed port is open again later, and a later fix is returned by read and
\* its row is committed to samples.
ReconnectLiveness ==
    /\ [][/\ (AcqStep /\ apc = "read" /\ ~serial_open) =>
                /\ sensor_data' = NoFix
                /\ apc' = "sleep"
                /\ iter_fault' = iter_fault /\ acq_log' = acq_log
          /\ samples' # samples => serial_open
         ]_vars
    /\ (~serial_open ~> serial_open)
    /\ <>(/\ serial_open
          /\ apc = "sleep" /\ iter_fault = "none"
          /\ sensor_data # NoFix
          /\ RowOf(sensor_data) \in samples)

\* the port, closed at the start, is open and the row of the fix read from
\* it has been committed, the first row of the table
SampleAfterReconnect ==
    /\ serial_open
    /\ apc = "sleep" /\ iter_fault = "none"
    /\ sensor_data # NoFix
    /\ samples = {RowOf(sensor_data)}

----------------------------------------------------------------------------
(* Properties of _insert_sample *)

\* the payload has no usable ts_utc: the key is absent or its value is None
LacksTimestamp(data) == "ts_utc" \notin DOMAIN data \/ data.ts_utc = NULL

\* C18: a call of _insert_sample with a payload whose ts_utc is absent or
\* None returns with the table as it was (and only such a call ends that
\* way), and a call whose write sqlite rejects returns with the table as it
\* was; neither ends in an exception.
SoftFailureOfInsert ==
    [][/\ LacksTimestamp(sensor_data') =>
            samples' = samples /\ iter_fault' = "no_ts"
       /\ (iter_fault' = "no_ts") => LacksTimestamp(sensor_data')
       /\ (iter_fault' = "db_error") => samples' = samples
      ]_vars

\* with rows in the table, a payload without ts_utc was passed earlier and
\* the write of the last call failed
InsertFailedSoftly ==
    /\ iter_fault = "db_error"
    /\ "missing_ts" \in acq_log
    /\ ~LacksTimestamp(sensor_data)
    /\ samples # {}
    /\ \A r \in samples : r.ts_utc # sensor_data.ts_utc

\* C20: no payload makes sqlite reject the statement for a column it names,
\* and a call that writes adds one row: it has the columns of the table and
\* nothing else, each recognised field of the payload that is not None in
\* its column and NULL in the other columns; a payload for a second that has
\* a row leaves the table as it was.
AllowListEnforced ==
    [][/\ iter_fault' # "no_such_column"
       /\ (iter_fault' = "none") =>
            IF \E r \in samples : r.ts_utc = sensor_data'.ts_utc
            THEN samples' = samples
            ELSE \E r \in samples' :
                    /\ samples' = samples \cup {r}
                    /\ r \notin samples
                    /\ DOMAIN r = VALID_SAMPLE_COLUMNS
                    /\ \A c \in VALID_SAMPLE_COLUMNS :
                          r[c] = IF c \in DOMAIN sensor_data'
                                    /\ sensor_data'[c] # NULL
                                 THEN sensor_data'[c] ELSE NULL
      ]_vars

\* a payload with a field that is no column was written: its row is in the table
UnknownFieldIgnored ==
    /\ iter_fault = "none"
    /\ "hdop" \in DOMAIN sensor_data
    /\ "hdop" \notin VALID_SAMPLE_COLUMNS
    /\ \E r \in samples :
          /\ r.ts_utc = sensor_data.ts_utc
          /\ r.lat = sensor_data.lat /\ r.speed_kn = sensor_data.speed_kn

----------------------------------------------------------------------------
(* Properties of the telemetry reader *)

\* a step of GpsSerialSensor.read
ReadStep == rpc' # rpc

\* C15: read returns a dict only for a line that is not empty, passes
\* pynmea2.parse, is an RMC sentence and has status A, and the dict holds that
\* sentence's lat, lon, speed_kn and course_deg; for an empty line, a
\* sentence that fails to parse, a sentence of another type and an RMC
\* sentence with another status it returns None and does not raise.
ReadReturnsFixOnlyForActiveRmc ==
    [][(ReadStep /\ rpc = "parse") =>
          /\ (rpc' = "idle" /\ sensor_data' # NoFix) =>
                /\ line_read.text # "" /\ line_read.checksum_ok
                /\ line_read.sentence = "RMC" /\ line_read.status = "A"
                /\ sensor_data' = line_read.fix
                /\ DOMAIN sensor_data' = {"lat", "lon", "speed_kn", "course_deg"}
          /\ (\/ line_read.text = "" \/ ~line_read.checksum_ok
              \/ line_read.sentence # "RMC" \/ line_read.status # "A") =>
                rpc' = "idle" /\ sensor_data' = NoFix
      ]_vars

\* read has returned the dict of an active RMC sentence
ReadReturnedFix ==
    /\ rpc = "idle"
    /\ sensor_data \in Readings
    /\ serial_open

\* C16: a serial fault in read closes the port, then sleeps the cool-down
\* with the port closed, then makes one attempt to open it, and read returns
\* None after that attempt whether the port is open or not; the port is
\* opened by that attempt only, and the fault path never raises.
TransportFaultRecovery ==
    [][/\ (ReadStep /\ rpc = "serial_error") =>
            rpc' = "cooldown" /\ ~serial_open'
       /\ (ReadStep /\ rpc = "cooldown") =>
            /\ rpc' = "reopen" /\ ~serial_open'
            /\ wall' >= wall + RECONNECT_COOLDOWN_S
       /\ (ReadStep /\ rpc = "reopen") =>
            rpc' = "idle" /\ sensor_data' = NoFix
       /\ (serial_open' # serial_open) => rpc \in {"serial_error", "reopen"}
       /\ (ReadStep /\ rpc' = "raised") => rpc = "parse"
      ]_vars

\* a read met a serial fault, its attempt to reopen the port failed, and it
\* has returned None
ReturnedAfterFailedReopen ==
    /\ rpc = "idle"
    /\ ~serial_open
    /\ sensor_data = NoFix
    /\ wall >= RECONNECT_COOLDOWN_S

----------------------------------------------------------------------------
(* Properties of the scheduler thread *)

\* C10: once the stop signal is set no job is started, and the signal leads
\* to run_interpreter_scheduler having shut the scheduler down, closed its
\* storage handle and returned.
SchedulerCooperativeShutdown ==
    /\ [][stop_event => ~(ipc = "idle" /\ ipc' # "idle")]_vars
    /\ (stop_event ~>
          (spc = "returned" /\ ~scheduler_running /\ ~interp_db_open))

====
